---- MODULE Spec2Model ----
(***************************************************************************)
(* A model of host.py: the daemon supervisor (launch_daemon, kill_daemon), *)
(* the host loop of main() with the presence publisher                     *)
(* (genHostSwarmFiles), the benchmark collector (get_stats) with the       *)
(* peer-connection helpers it uses, and the client handle's IPFS_PATH.     *)
(*                                                                         *)
(* The host is one sequential Python process; pc is its position and stack *)
(* the return positions of the calls in progress.  Everything the host     *)
(* only observes through subprocesses (the process table that `pgrep ipfs` *)
(* reads, the daemon's readiness, the swarm) is environment state that     *)
(* changes by environment actions interleaved with the host's steps.       *)
(***************************************************************************)
EXTENDS Integers, Sequences, FiniteSets

(* --------------------------- bounds ----------------------------------- *)
\* Daemon processes that may be alive at once.
MaxProcs == 2
\* Spawned daemons that have not yet shown up in the process table.
MaxPending == 1
\* Daemon processes that die by themselves during one run.
MaxDeaths == 2
\* The history counters of one launch_daemon call saturate here.
MaxCount == 6

\* The last second of the model's clock, and the seconds before it at which
\* a host run starts.
MaxTime == 720
RunLength == 61

\* One session window is sixty seconds (host.py, line 221), and main sleeps
\* sixty seconds per cycle (line 349).
WindowSeconds == 60
SleepSeconds == 60

\* The waits of a caller that calls the publisher repeatedly.
Delays == {59, 60, 61}

\* What a cycle of main's loop lasts beyond its sleep: nothing, or a second.
Lags == {0, 1}

\* FILES has eleven entries (host.py, lines 35-80).
NumFiles == 11
\* The publisher builds range(3) tokens (host.py, line 223).
NumTokens == 3

\* One more pid than live processes, so that a new process never takes the
\* pid that kill_daemon still remembers.
Pids == 1 .. (MaxProcs + 1)

VARIABLES
    pc,        \* the host's position ("exited" once the process is gone)
    stack,     \* return positions of the calls in progress
    argKill,   \* args.kill
    pid,       \* kill_daemon's local `pid` (0 is Python's False)
    pinned,    \* FILES entries pinned so far by main
    tok,       \* index of the next token in genHostSwarmFiles
    envPath,   \* os.environ["IPFS_PATH"], or "unset"
    procs,     \* pids of the live processes that `pgrep ipfs` matches
    ready,     \* the pid of the daemon that answers `stats bitswap`, or 0
    pending,   \* daemons spawned by Popen and not yet in the process table
    deaths,    \* daemon processes that died by themselves so far
    spawns,    \* history: Popen attempts of the current launch_daemon call
    pollFails, \* history: failed spawn-loop polls of the current call
    inLaunch,  \* history: a launch_daemon call is in progress
    lastLaunch,\* history: how the last launch_daemon returned
    launched,  \* history: launch_daemon has returned at least once
    kdExit,    \* history: how the last kill_daemon call ended
    kdSent,    \* history: the current/last kill_daemon delivered a signal
    tornDown,  \* history: teardown() has run to its end
    exitHow,   \* history: why the process exited
    bpc,       \* position of a caller of the client's benchmark methods
    hosts,     \* get_stats: the configured peers, in order
    n,         \* get_stats: the `samples` argument
    gets,      \* get_stats: the accepted samples
    tries,     \* get_stats: the attempts so far
    hi,        \* index of the next peer in a loop over hosts
    who,       \* the peer of the ensure_connected/ensure_disconnected call
    q,         \* the result of the last is_connected
    bret,      \* where ensure_connected returns to
    t,         \* get_stats: the duration of the last timed fetch
    localCopy, \* a file named file.hash exists in the working directory
    result,    \* what get_stats returned, or NoResult
    swarm,     \* the peers `swarm addrs` lists
    rejected,  \* history: samples of the current get_stats call not accepted
    failed,    \* history: the required command that failed, or "none"
    lastCmd,   \* history: the last connect/disconnect command issued
    fetches,   \* history: timed fetches of the current get_stats call
    now,       \* time.time(), in whole seconds
    sessionId, \* genHostSwarmFiles: the local `sessionId`
    sharedTokens, \* genHostSwarmFiles: the local `sharedTokens`
    attempts,  \* history: the tokens whose pipeline this cycle's call ran
    pubFails,  \* history: pipelines of this cycle's call that failed
    pubs,      \* history: the last two genHostSwarmFiles calls that returned
    lastPoll,  \* history: the pids `pgrep ipfs` printed at the latest poll
    cycle,     \* history: what main's loop has called in the current cycle
    live,      \* per client handle: "none", "live" or "torn"
    hpath,     \* per client handle: its ipfs_path
    cur,       \* the handle (`self`) of the teardown in progress
    cmdBy,     \* history: the handle that issued the last command, or 0
    cmdEnv     \* history: the IPFS_PATH that command ran with

hostVars == <<pc, stack, argKill, pid, pinned, tok, envPath>>
envVars  == <<procs, ready, pending, deaths>>
histVars == <<spawns, pollFails, inLaunch, lastLaunch, launched, kdExit,
              kdSent, tornDown, exitHow>>
benchVars == <<bpc, hosts, n, gets, tries, hi, who, q, bret, t, localCopy,
               result, swarm, rejected, failed, lastCmd, fetches>>
pubVars == <<now, sessionId, sharedTokens, attempts, pubFails, pubs>>
auxVars == <<lastPoll, cycle>>
handleVars == <<live, hpath, cur, cmdBy, cmdEnv>>
supervisorVars == <<hostVars, envVars, histVars, pubVars, auxVars, handleVars>>
vars == <<hostVars, envVars, histVars, benchVars, pubVars, auxVars,
          handleVars>>

Unset == "unset"
DotIpfs == "dotipfs"
OtherIpfs == "otheripfs"

\* The client handles a process may hold; main constructs the first only.
Handles == {1, 2}

Inc(c) == IF c < MaxCount THEN c + 1 ELSE MaxCount

(* ------------------- the derived daemon state -------------------------- *)

\* daemon_running(): int(check_output("pgrep ipfs").strip()).  One match
\* gives its pid; no match makes pgrep exit 1, several matches make int()
\* raise on the multi-line output: both are caught and give False (0).
DaemonRunning ==
    IF Cardinality(procs) = 1 THEN CHOOSE p \in procs : TRUE ELSE 0

\* daemon_available(): `ipfs stats bitswap` exits 0 iff a daemon answers.
DaemonAvailable == ready # 0

(* ------------------------- calls and returns --------------------------- *)

Call(label, ret) ==
    /\ pc' = label
    /\ stack' = <<ret>> \o stack

Return ==
    /\ pc' = Head(stack)
    /\ stack' = Tail(stack)

Alive == pc # "exited"

(* ------------------------------ main ----------------------------------- *)

\* _ensure_path(): set IPFS_PATH unless it already is the handle's path.
EnsurePath(path) == IF envPath # path THEN path ELSE envPath

\* main, lines 308-327: construct the client (sets IPFS_PATH), init(), then
\* --kill calls kill_daemon and falls to line 351, else launch_daemon.
MainStart ==
    /\ pc = "m_start"
    /\ envPath' = EnsurePath(DotIpfs)
    /\ live' = [live EXCEPT ![1] = "live"]
    /\ hpath' = [hpath EXCEPT ![1] = DotIpfs]
    /\ IF argKill
         THEN /\ Call("kd_pid", "m_kill2")
              /\ kdExit' = "none" /\ kdSent' = FALSE
              /\ UNCHANGED <<spawns, pollFails, inLaunch>>
         ELSE /\ Call("ld_avail", "m_pin")
              /\ spawns' = 0 /\ pollFails' = 0 /\ inLaunch' = TRUE
              /\ UNCHANGED <<kdExit, kdSent>>
    /\ UNCHANGED <<benchVars, pubVars, auxVars, argKill, pid, pinned, tok,
                   envVars, lastLaunch, launched, tornDown, exitHow, cur,
                   cmdBy, cmdEnv>>

\* check_output(), lines 178-183, on failure: print and exit().  SystemExit
\* propagates out of main: nothing between here and the interpreter's exit
\* catches it, and main has no finally.
FatalExit ==
    /\ pc' = "exited"
    /\ stack' = <<>>
    /\ exitHow' = "fatal"

\* main, lines 330-332: pin every file; a failing `pin add` is fatal.
MainPinOk ==
    /\ pc = "m_pin"
    /\ pinned < NumFiles
    /\ pinned' = pinned + 1
    /\ UNCHANGED <<benchVars, pubVars, auxVars, handleVars, pc, stack, argKill,
                   pid, tok, envPath, envVars, histVars>>

MainPinFail ==
    /\ pc = "m_pin"
    /\ pinned < NumFiles
    /\ FatalExit
    /\ UNCHANGED <<benchVars, pubVars, auxVars, handleVars, argKill, pid,
                   pinned, tok, envPath, envVars, spawns, pollFails, inLaunch,
                   lastLaunch, launched, kdExit, kdSent, tornDown>>

\* main, line 335: call("id"), its exit code ignored; then the loop.
MainId ==
    /\ pc = "m_pin"
    /\ pinned = NumFiles
    /\ pc' = "m_loop"
    /\ UNCHANGED <<benchVars, pubVars, auxVars, handleVars, stack, argKill,
                   pid, pinned, tok, envPath, envVars, histVars>>

\* main, line 347: the loop's launch_daemon().
MainLoopLaunch ==
    /\ pc = "m_loop"
    /\ Call("ld_avail", "m_publish")
    /\ spawns' = 0 /\ pollFails' = 0 /\ inLaunch' = TRUE
    /\ cycle' = <<"launch">>
    /\ attempts' = <<>> /\ pubFails' = 0
    /\ UNCHANGED <<benchVars, handleVars, argKill, pid, pinned, tok, envPath,
                   envVars, lastLaunch, launched, kdExit, kdSent, tornDown,
                   exitHow, lastPoll, now, sessionId, sharedTokens, pubs>>

\* main, line 348: the loop's genHostSwarmFiles().
MainPublish ==
    /\ pc = "m_publish"
    /\ Call("gh_start", "m_sleep")
    /\ cycle' = Append(cycle, "publish")
    /\ UNCHANGED <<benchVars, pubVars, handleVars, argKill, pid, pinned, tok,
                   envPath, envVars, histVars, lastPoll>>

\* main, line 349: time.sleep(60), then the next cycle.  The sleep lasts at
\* least its sixty seconds; the lag is what it overshoots by plus what the
\* calls of the cycle took.
MainSleep ==
    /\ pc = "m_sleep"
    /\ \E lag \in Lags :
          /\ now + SleepSeconds + lag <= MaxTime
          /\ now' = now + SleepSeconds + lag
    /\ pc' = "m_loop"
    /\ cycle' = Append(cycle, "sleep")
    /\ UNCHANGED <<benchVars, handleVars, stack, argKill, pid, pinned, tok,
                   envPath, envVars, histVars, sessionId, sharedTokens,
                   attempts, pubFails, pubs, lastPoll>>

(* ------------------------- genHostSwarmFiles --------------------------- *)

\* "{}".format(k) for an integer k >= 0: its decimal digits.
RECURSIVE Decimal(_)
Decimal(k) == IF k < 10 THEN <<k>> ELSE Append(Decimal(k \div 10), k % 10)

\* The number a string of decimal digits denotes.
RECURSIVE Value(_)
Value(ds) ==
    IF ds = <<>> THEN 0
    ELSE Value(SubSeq(ds, 1, Len(ds) - 1)) * 10 + ds[Len(ds)]

\* A variant of Token that names the following window.
TokenNext(w) ==
    [text |-> "Member of P2P CDN Session: ", number |-> Decimal(w + 1)]

\* genHostSwarmFiles, line 223: "Member of P2P CDN Session: {}".format(w).
Token(w) == [text |-> "Member of P2P CDN Session: ", number |-> Decimal(w)]

\* A variant of SessionIdAt that rounds to the nearest minute.
SessionIdAtRounded(time) == (time + 30) \div WindowSeconds

\* genHostSwarmFiles, line 221: int(time.time() / 60).
SessionIdAt(time) == time \div WindowSeconds

\* genHostSwarmFiles, lines 221-223: the session id of the current minute
\* and the tokens of this session and the next two.
PubSession ==
    /\ pc = "gh_start"
    /\ sessionId' = SessionIdAt(now)
    /\ sharedTokens' = [i \in 1 .. NumTokens |-> Token(sessionId' + (i - 1))]
    /\ tok' = 0
    /\ attempts' = <<>>
    /\ pubFails' = 0
    /\ pc' = "gh_token"
    /\ UNCHANGED <<benchVars, auxVars, handleVars, stack, argKill, pid, pinned,
                   envPath, envVars, histVars, now, pubs>>

\* genHostSwarmFiles, lines 225-228: the add-and-pin pipeline of the next
\* token succeeds.
PublishTokenOk ==
    /\ pc = "gh_token"
    /\ tok < NumTokens
    /\ tok' = tok + 1
    /\ attempts' = Append(attempts, sharedTokens[tok + 1])
    /\ UNCHANGED <<benchVars, auxVars, handleVars, pc, stack, argKill, pid,
                   pinned, envPath, envVars, histVars, now, sessionId,
                   sharedTokens, pubFails, pubs>>

\* A variant of AfterFailure that leaves the loop at the first failure.
AfterFailureBreak == NumTokens

\* genHostSwarmFiles, lines 229-230: the except branch prints, and the for
\* loop goes on with the next token.
AfterFailure == tok + 1

\* genHostSwarmFiles, lines 225-230: the pipeline of the next token fails.
PublishTokenFail ==
    /\ pc = "gh_token"
    /\ tok < NumTokens
    /\ tok' = AfterFailure
    /\ attempts' = Append(attempts, sharedTokens[tok + 1])
    /\ pubFails' = pubFails + 1
    /\ UNCHANGED <<benchVars, auxVars, handleVars, pc, stack, argKill, pid,
                   pinned, envPath, envVars, histVars, now, sessionId,
                   sharedTokens, pubs>>

\* The last two entries of a sequence.
LastTwo(s) == IF Len(s) <= 2 THEN s ELSE SubSeq(s, Len(s) - 1, Len(s))

\* genHostSwarmFiles returns after the last token (the call takes no time
\* on the model's clock, so it returns at the second it read at line 221).
PublishDone ==
    /\ pc = "gh_token"
    /\ tok = NumTokens
    /\ Return
    /\ pubs' = LastTwo(Append(pubs, [at |-> now, tokens |-> sharedTokens,
                                     attempts |-> attempts]))
    /\ tok' = 0
    /\ sessionId' = 0
    /\ sharedTokens' = <<>>
    /\ UNCHANGED <<benchVars, auxVars, handleVars, argKill, pid, pinned,
                   envPath, envVars, histVars, now, attempts, pubFails>>

\* A caller other than main calls genHostSwarmFiles again and again, waiting
\* 59, 60 or 61 seconds in between.
PubCall ==
    /\ pc = "p_call"
    /\ Call("gh_start", "p_wait")
    /\ UNCHANGED <<benchVars, pubVars, auxVars, handleVars, argKill, pid,
                   pinned, tok, envPath, envVars, histVars>>

PubWait ==
    /\ pc = "p_wait"
    /\ \E d \in Delays :
          /\ now + d <= MaxTime
          /\ now' = now + d
    /\ pc' = "p_call"
    /\ UNCHANGED <<benchVars, auxVars, handleVars, stack, argKill, pid, pinned,
                   tok, envPath, envVars, histVars, sessionId, sharedTokens,
                   attempts, pubFails, pubs>>

\* main, line 351: kill_daemon() (reached on the --kill path only: the
\* else branch never leaves `while True`).
MainKill2 ==
    /\ pc = "m_kill2"
    /\ Call("kd_pid", "m_teardown")
    /\ kdExit' = "none" /\ kdSent' = FALSE
    /\ UNCHANGED <<benchVars, pubVars, auxVars, handleVars, argKill, pid,
                   pinned, tok, envPath, envVars, spawns, pollFails, inLaunch,
                   lastLaunch, launched, tornDown, exitHow>>

\* main, line 352: ipfs.teardown().
MainTeardown ==
    /\ pc = "m_teardown"
    /\ Call("td_kill", "m_delete")
    /\ cur' = 1
    /\ UNCHANGED <<benchVars, pubVars, auxVars, argKill, pid, pinned, tok,
                   envPath, envVars, histVars, live, hpath, cmdBy, cmdEnv>>

\* teardown, line 90: kill_daemon().
TeardownKill ==
    /\ pc = "td_kill"
    /\ Call("kd_pid", "td_unset")
    /\ kdExit' = "none" /\ kdSent' = FALSE
    /\ UNCHANGED <<benchVars, pubVars, auxVars, handleVars, argKill, pid,
                   pinned, tok, envPath, envVars, spawns, pollFails, inLaunch,
                   lastLaunch, launched, tornDown, exitHow>>

\* teardown, line 91, and _unset_path, lines 189-191: IPFS_PATH is removed
\* from the environment, whatever it holds.
TeardownUnset ==
    /\ pc = "td_unset"
    /\ envPath' = Unset
    /\ tornDown' = TRUE
    /\ live' = [live EXCEPT ![cur] = "torn"]
    /\ Return
    /\ UNCHANGED <<benchVars, pubVars, auxVars, argKill, pid, pinned, tok,
                   envVars, spawns, pollFails, inLaunch, lastLaunch, launched,
                   kdExit, kdSent, exitHow, hpath, cur, cmdBy, cmdEnv>>

\* main, line 353, and the return of main.
MainDelete ==
    /\ pc = "m_delete"
    /\ pc' = "exited"
    /\ exitHow' = "normal"
    /\ UNCHANGED <<benchVars, pubVars, auxVars, handleVars, stack, argKill,
                   pid, pinned, tok, envPath, envVars, spawns, pollFails,
                   inLaunch, lastLaunch, launched, kdExit, kdSent, tornDown>>

(* --------------------------- launch_daemon ----------------------------- *)

\* The pid a new daemon process gets: never one that is alive, nor the one
\* kill_daemon still holds.
FreshPid == CHOOSE p \in Pids \ (procs \cup {pid}) :
                \A r \in Pids \ (procs \cup {pid}) : p <= r

\* A variant of LaunchFastPath with the test negated.
LaunchFastPathNegated == ~DaemonAvailable

\* launch_daemon, lines 94-95: `if self.daemon_available(): return`.
LaunchFastPath == DaemonAvailable

LaunchCheck ==
    /\ pc = "ld_avail"
    /\ IF LaunchFastPath
         THEN /\ Return
              /\ inLaunch' = FALSE
              /\ lastLaunch' = "fast"
              /\ launched' = TRUE
         ELSE /\ pc' = "ld_running"
              /\ UNCHANGED <<stack, inLaunch, lastLaunch, launched>>
    /\ UNCHANGED <<benchVars, pubVars, auxVars, handleVars, argKill, pid,
                   pinned, tok, envPath, envVars, spawns, pollFails, kdExit,
                   kdSent, tornDown, exitHow>>

\* launch_daemon, lines 96-97: `elif self.daemon_running(): kill_daemon()`.
LaunchRunning ==
    /\ pc = "ld_running"
    /\ lastPoll' = procs
    /\ IF DaemonRunning # 0
         THEN /\ Call("kd_pid", "ld_spawn_poll")
              /\ kdExit' = "none" /\ kdSent' = FALSE
         ELSE /\ pc' = "ld_spawn_poll"
              /\ UNCHANGED <<stack, kdExit, kdSent>>
    /\ UNCHANGED <<benchVars, pubVars, cycle, handleVars, argKill, pid, pinned,
                   tok, envPath, envVars, spawns, pollFails, inLaunch,
                   lastLaunch, launched, tornDown, exitHow>>

\* launch_daemon, line 99: `while not self.daemon_running()`.
SpawnLoopCond == DaemonRunning = 0

SpawnPoll ==
    /\ pc = "ld_spawn_poll"
    /\ lastPoll' = procs
    /\ IF SpawnLoopCond
         THEN /\ pc' = "ld_popen"
              /\ pollFails' = Inc(pollFails)
         ELSE /\ pc' = "ld_wait"
              /\ UNCHANGED pollFails
    /\ UNCHANGED <<benchVars, pubVars, cycle, handleVars, stack, argKill, pid,
                   pinned, tok, envPath, envVars, spawns, inLaunch, lastLaunch,
                   launched, kdExit, kdSent, tornDown, exitHow>>

\* launch_daemon, lines 101-102: Popen("ipfs daemon &", shell=True) returns
\* as soon as the shell runs; the daemon shows up in the process table
\* later (Appear).
PopenSpawned ==
    /\ pc = "ld_popen"
    /\ pending < MaxPending
    /\ pending' = pending + 1
    /\ spawns' = Inc(spawns)
    /\ pc' = "ld_spawn_poll"
    /\ UNCHANGED <<benchVars, pubVars, auxVars, handleVars, stack, argKill,
                   pid, pinned, tok, envPath, procs, ready, deaths, pollFails,
                   inLaunch, lastLaunch, launched, kdExit, kdSent, tornDown,
                   exitHow>>

\* A variant of PopenNoProcess that tries Popen again without polling the
\* process table in between.
PopenNoProcessRetry ==
    /\ pc = "ld_popen"
    /\ spawns' = Inc(spawns)
    /\ pc' = "ld_popen"
    /\ UNCHANGED <<benchVars, pubVars, auxVars, handleVars, stack, argKill,
                   pid, pinned, tok, envPath, envVars, pollFails, inLaunch,
                   lastLaunch, launched, kdExit, kdSent, tornDown, exitHow>>

\* The same Popen, when the backgrounded daemon exits at once (the binary is
\* missing, the repository is locked): no process ever shows up.
PopenNoProcess ==
    /\ pc = "ld_popen"
    /\ spawns' = Inc(spawns)
    /\ pc' = "ld_spawn_poll"
    /\ UNCHANGED <<benchVars, pubVars, auxVars, handleVars, stack, argKill,
                   pid, pinned, tok, envPath, envVars, pollFails, inLaunch,
                   lastLaunch, launched, kdExit, kdSent, tornDown, exitHow>>

\* launch_daemon, lines 103-104: Popen raises; `except: self.kill_daemon()`.
PopenRaises ==
    /\ pc = "ld_popen"
    /\ spawns' = Inc(spawns)
    /\ Call("kd_pid", "ld_spawn_poll")
    /\ kdExit' = "none" /\ kdSent' = FALSE
    /\ UNCHANGED <<benchVars, pubVars, auxVars, handleVars, argKill, pid,
                   pinned, tok, envPath, envVars, pollFails, inLaunch,
                   lastLaunch, launched, tornDown, exitHow>>

\* A variant of WaitLoopCond that waits for a process, not for readiness.
WaitLoopCondRunning == DaemonRunning = 0

\* launch_daemon, line 105: `while not self.daemon_available()`.
WaitLoopCond == ~DaemonAvailable

\* launch_daemon, lines 105 and 108: the readiness poll; return once it
\* succeeds.
WaitPoll ==
    /\ pc = "ld_wait"
    /\ IF ~WaitLoopCond
         THEN /\ Return
              /\ inLaunch' = FALSE
              /\ lastLaunch' = "slow"
              /\ launched' = TRUE
              /\ lastPoll' = {}
         ELSE /\ pc' = "ld_sleep"
              /\ UNCHANGED <<stack, inLaunch, lastLaunch, launched, lastPoll>>
    /\ UNCHANGED <<benchVars, pubVars, cycle, handleVars, argKill, pid, pinned,
                   tok, envPath, envVars, spawns, pollFails, kdExit, kdSent,
                   tornDown, exitHow>>

\* launch_daemon, lines 106-107: print and time.sleep(1).
WaitSleep ==
    /\ pc = "ld_sleep"
    /\ pc' = "ld_wait"
    /\ UNCHANGED <<benchVars, pubVars, auxVars, handleVars, stack, argKill,
                   pid, pinned, tok, envPath, envVars, histVars>>

(* ---------------------------- kill_daemon ------------------------------ *)

\* kill_daemon, line 129: `pid = self.daemon_running()`.
KillGetPid ==
    /\ pc = "kd_pid"
    /\ lastPoll' = procs
    /\ pid' = DaemonRunning
    /\ pc' = "kd_poll"
    /\ UNCHANGED <<benchVars, pubVars, cycle, handleVars, stack, argKill,
                   pinned, tok, envPath, envVars, histVars>>

\* A variant of KillLoopCond that tests the pid of line 129 instead of
\* polling again.
KillLoopCondStalePid == pid # 0

\* kill_daemon, line 130: `while self.daemon_running()`.
KillLoopCond == DaemonRunning # 0

KillPoll ==
    /\ pc = "kd_poll"
    /\ lastPoll' = procs
    /\ IF KillLoopCond
         THEN /\ pc' = "kd_kill"
              /\ UNCHANGED <<stack, pid, kdExit>>
         ELSE /\ Return
              /\ pid' = 0
              /\ kdExit' = "poll"
    /\ UNCHANGED <<benchVars, pubVars, cycle, handleVars, argKill, pinned, tok,
                   envPath, envVars, spawns, pollFails, inLaunch, lastLaunch,
                   launched, kdSent, tornDown, exitHow>>

\* kill_daemon, line 133: os.kill(pid, SIGKILL) reaches the process.
KillDelivered ==
    /\ pc = "kd_kill"
    /\ pid \in procs
    /\ procs' = procs \ {pid}
    /\ ready' = IF ready = pid THEN 0 ELSE ready
    /\ kdSent' = TRUE
    /\ pc' = "kd_poll"
    /\ UNCHANGED <<benchVars, pubVars, auxVars, handleVars, stack, argKill,
                   pid, pinned, tok, envPath, pending, deaths, spawns,
                   pollFails, inLaunch, lastLaunch, launched, kdExit, tornDown,
                   exitHow>>

\* kill_daemon, lines 134-135: os.kill raises (no such process, or the
\* process is not the user's to signal); `except: return`.
KillRefused ==
    /\ pc = "kd_kill"
    /\ pid # 0
    /\ Return
    /\ pid' = 0
    /\ kdExit' = "except"
    /\ UNCHANGED <<benchVars, pubVars, auxVars, handleVars, argKill, pinned,
                   tok, envPath, envVars, spawns, pollFails, inLaunch,
                   lastLaunch, launched, kdSent, tornDown, exitHow>>

\* kill_daemon, line 133 with pid = False: os.kill(0, SIGKILL) signals the
\* caller's own process group.  The host dies, and with it the daemons of
\* its group (those it spawned); daemons of other groups survive.
KillGroup ==
    /\ pc = "kd_kill"
    /\ pid = 0
    /\ \E left \in SUBSET procs :
          /\ procs' = left
          /\ ready' = IF ready \in left THEN ready ELSE 0
    /\ pc' = "exited"
    /\ stack' = <<>>
    /\ exitHow' = "selfkill"
    /\ UNCHANGED <<benchVars, pubVars, auxVars, handleVars, argKill, pid,
                   pinned, tok, envPath, pending, deaths, spawns, pollFails,
                   inLaunch, lastLaunch, launched, kdExit, kdSent, tornDown>>

(* ------------------- termination and the environment ------------------- *)

\* A termination request: SIGTERM at any point, or SIGINT outside a
\* try/except.  (A SIGINT that arrives inside one of the bare `except:`
\* blocks is caught there and is that command's failure branch.)  The
\* process ends at once: main installs no handler and has no finally.
Terminate ==
    /\ Alive
    /\ pc' = "exited"
    /\ stack' = <<>>
    /\ exitHow' = "signal"
    /\ UNCHANGED <<benchVars, pubVars, auxVars, handleVars, argKill, pid,
                   pinned, tok, envPath, envVars, spawns, pollFails, inLaunch,
                   lastLaunch, launched, kdExit, kdSent, tornDown>>

\* A spawned daemon shows up in the process table.
Appear ==
    /\ Alive
    /\ pending > 0
    /\ Cardinality(procs) < MaxProcs
    /\ procs' = procs \cup {FreshPid}
    /\ pending' = pending - 1
    /\ UNCHANGED <<benchVars, pubVars, auxVars, handleVars, hostVars, ready,
                   deaths, histVars>>

\* A running daemon finishes its start-up and answers the status command;
\* one daemon at a time holds the repository.
BecomeReady ==
    /\ Alive
    /\ ready = 0
    /\ \E p \in procs : ready' = p
    /\ UNCHANGED <<benchVars, pubVars, auxVars, handleVars, hostVars, procs,
                   pending, deaths, histVars>>

\* A daemon process dies by itself.
Die ==
    /\ Alive
    /\ deaths < MaxDeaths
    /\ \E p \in procs :
          /\ procs' = procs \ {p}
          /\ ready' = IF ready = p THEN 0 ELSE ready
    /\ deaths' = deaths + 1
    /\ UNCHANGED <<benchVars, pubVars, auxVars, handleVars, hostVars, pending,
                   histVars>>

\* A second daemon finds the repository locked by the ready one and exits.
DuplicateExit ==
    /\ Alive
    /\ ready # 0
    /\ \E p \in procs \ {ready} : procs' = procs \ {p}
    /\ UNCHANGED <<benchVars, pubVars, auxVars, handleVars, hostVars, ready,
                   pending, deaths, histVars>>

(* ------------------- peers and the connection query -------------------- *)

\* Samples a get_stats caller may ask for, the longest hosts list, and the
\* largest duration (in clock ticks) a timed fetch reports.
MaxSamples == 3
MaxHosts == 2
MaxDur == 1

\* Peer ids are strings, here sequences of characters.  The id of the first
\* peer is a substring of the id of the second.
PeerA == <<1>>
PeerAB == <<1, 2>>
PeerC == <<3>>
Peers == {PeerA, PeerAB, PeerC}

\* IPFSNode, lines 23-27: the address holds the id (`assert id in address`);
\* character 0 stands for the multiaddr prefix before it.
Address(p) == <<0>> \o p

\* Python's `s in text` on strings.
IsSubstring(s, text) ==
    \E i \in 0 .. (Len(text) - Len(s)) : SubSeq(text, i + 1, i + Len(s)) = s

\* is_connected, lines 148-150: the peer's id occurs somewhere in the output
\* of `swarm addrs`, which lists the addresses of the swarm's peers.
IsConnected(p) == \E m \in swarm : IsSubstring(p, Address(m))

\* The hosts lists a caller may pass: up to MaxHosts distinct peers.
HostLists ==
    {s \in UNION {[1 .. k -> Peers] : k \in 0 .. MaxHosts} :
        \A i, j \in DOMAIN s : s[i] = s[j] => i = j}

Durations == 0 .. MaxDur
NoResult == [tries |-> -1, gets |-> <<>>, average |-> <<0, 0>>]

NoCmd == <<"none", PeerA>>

RECURSIVE Sum(_)
Sum(s) == IF s = <<>> THEN 0 ELSE Head(s) + Sum(Tail(s))

\* A variant of BenchFatal that reports the failure and does not exit.
BenchSwallow(cmd) ==
    /\ bpc' = bpc
    /\ failed' = cmd

\* check_output, lines 181-183, and time, lines 172-174: the command failed;
\* print and exit().  No caller catches the SystemExit.
BenchFatal(cmd) ==
    /\ bpc' = "b_exited"
    /\ failed' = cmd

(* --------------- ensure_connected / ensure_disconnected ---------------- *)

\* A caller calls ensure_connected(p) or ensure_disconnected(p).
CallEnsureConnected ==
    /\ bpc = "b_idle"
    /\ \E p \in Peers : who' = p
    /\ bret' = "b_idle"
    /\ bpc' = "ec_query"
    /\ result' = NoResult
    /\ lastCmd' = lastCmd
    /\ UNCHANGED <<supervisorVars, hosts, n, gets, tries, hi, q, t, localCopy,
                   swarm, rejected, fetches, failed>>

CallEnsureDisconnected ==
    /\ bpc = "b_idle"
    /\ \E p \in Peers : who' = p
    /\ bret' = "b_idle"
    /\ bpc' = "ed_query"
    /\ result' = NoResult
    /\ lastCmd' = NoCmd
    /\ UNCHANGED <<supervisorVars, hosts, n, gets, tries, hi, q, t, localCopy,
                   swarm, rejected, fetches, failed>>

\* ensure_connected, line 153, and ensure_disconnected, line 157: the
\* is_connected query (`swarm addrs` through check_output).
ConnQueryOk ==
    /\ bpc \in {"ec_query", "ed_query"}
    /\ q' = IsConnected(who)
    /\ bpc' = IF bpc = "ec_query" THEN "ec_act" ELSE "ed_act"
    /\ UNCHANGED <<supervisorVars, hosts, n, gets, tries, hi, who, bret, t,
                   localCopy, result, swarm, rejected, fetches, failed,
                   lastCmd>>

ConnQueryFail ==
    /\ bpc \in {"ec_query", "ed_query"}
    /\ BenchFatal("swarm addrs")
    /\ UNCHANGED <<supervisorVars, hosts, n, gets, tries, hi, who, q, bret, t,
                   localCopy, result, swarm, rejected, fetches, lastCmd>>

\* ensure_connected / ensure_disconnected return; their frame is gone.
ConnReturn ==
    /\ bpc' = bret
    /\ who' = PeerA
    /\ q' = FALSE

\* A variant of MustConnect that connects whatever the query said.
MustConnectAlways == TRUE

\* ensure_connected, line 153: `if not self.is_connected(ipfs_node)`.
MustConnect == ~q

\* ensure_disconnected, line 157: `if self.is_connected(ipfs_node)`.
MustDisconnect == q

\* ensure_connected, lines 153-154: nothing to do.
ConnectSkip ==
    /\ bpc = "ec_act"
    /\ ~MustConnect
    /\ ConnReturn
    /\ lastCmd' = NoCmd
    /\ UNCHANGED <<supervisorVars, hosts, n, gets, tries, hi, bret, t,
                   localCopy, result, swarm, rejected, fetches, failed>>

\* ensure_connected, line 154: `swarm connect <address>` succeeds and the
\* peer is in the swarm.
ConnectOk ==
    /\ bpc = "ec_act"
    /\ MustConnect
    /\ swarm' = swarm \cup {who}
    /\ lastCmd' = <<"connect", who>>
    /\ ConnReturn
    /\ UNCHANGED <<supervisorVars, hosts, n, gets, tries, hi, bret, t,
                   localCopy, result, rejected, fetches, failed>>

ConnectFail ==
    /\ bpc = "ec_act"
    /\ MustConnect
    /\ lastCmd' = <<"connect", who>>
    /\ BenchFatal("swarm connect")
    /\ UNCHANGED <<supervisorVars, hosts, n, gets, tries, hi, who, q, bret, t,
                   localCopy, result, swarm, rejected, fetches>>

\* ensure_disconnected, lines 157-158.
DisconnectSkip ==
    /\ bpc = "ed_act"
    /\ ~MustDisconnect
    /\ ConnReturn
    /\ lastCmd' = NoCmd
    /\ UNCHANGED <<supervisorVars, hosts, n, gets, tries, hi, bret, t,
                   localCopy, result, swarm, rejected, fetches, failed>>

DisconnectOk ==
    /\ bpc = "ed_act"
    /\ MustDisconnect
    /\ swarm' = swarm \ {who}
    /\ lastCmd' = <<"disconnect", who>>
    /\ ConnReturn
    /\ UNCHANGED <<supervisorVars, hosts, n, gets, tries, hi, bret, t,
                   localCopy, result, rejected, fetches, failed>>

DisconnectFail ==
    /\ bpc = "ed_act"
    /\ MustDisconnect
    /\ lastCmd' = <<"disconnect", who>>
    /\ BenchFatal("swarm disconnect")
    /\ UNCHANGED <<supervisorVars, hosts, n, gets, tries, hi, who, q, bret, t,
                   localCopy, result, swarm, rejected, fetches>>

(* ------------------------------ get_stats ------------------------------ *)

\* get_stats, lines 196-199: a caller calls get_stats(file, hosts, samples).
CallGetStats ==
    /\ bpc = "b_idle"
    /\ \E k \in 0 .. MaxSamples : n' = k
    /\ gets' = <<>>
    /\ tries' = 0
    /\ rejected' = 0
    /\ fetches' = 0
    /\ result' = NoResult
    /\ lastCmd' = NoCmd
    /\ bpc' = "gs_loop"
    /\ UNCHANGED <<supervisorVars, hosts, hi, who, q, bret, t, localCopy,
                   swarm, failed>>

\* Variants of StatsLoopCond: `or` for `and`, and `<=` for the first `<`.
StatsLoopCondOr == Len(gets) < n \/ tries < n * 2

StatsLoopCondLe == Len(gets) <= n /\ tries < n * 2

\* get_stats, line 200: `while len(gets) < samples and tries < samples*2`.
StatsLoopCond == Len(gets) < n /\ tries < n * 2

\* get_stats, lines 200-202: one more attempt, or the loop is left.
StatsLoop ==
    /\ bpc = "gs_loop"
    /\ IF StatsLoopCond
         THEN /\ tries' = tries + 1
              /\ hi' = 1
              /\ bpc' = "gs_connect"
         ELSE /\ bpc' = "gs_cleanup"
              /\ UNCHANGED <<tries, hi>>
    /\ UNCHANGED <<supervisorVars, hosts, n, gets, who, q, bret, t, localCopy,
                   result, swarm, rejected, fetches, failed, lastCmd>>

\* get_stats, lines 203-204: `for h in hosts: self.ensure_connected(h)`.
StatsConnect ==
    /\ bpc = "gs_connect"
    /\ IF hi <= Len(hosts)
         THEN /\ who' = hosts[hi]
              /\ hi' = hi + 1
              /\ bret' = "gs_connect"
              /\ bpc' = "ec_query"
         ELSE /\ bpc' = "gs_gc"
              /\ hi' = 1
              /\ UNCHANGED <<who, bret>>
    /\ UNCHANGED <<supervisorVars, hosts, n, gets, tries, q, t, localCopy,
                   result, swarm, rejected, fetches, failed, lastCmd>>

\* get_stats, line 205: check_output("repo gc").
StatsGcOk ==
    /\ bpc = "gs_gc"
    /\ bpc' = "gs_rm"
    /\ UNCHANGED <<supervisorVars, hosts, n, gets, tries, hi, who, q, bret, t,
                   localCopy, result, swarm, rejected, fetches, failed,
                   lastCmd>>

StatsGcFail ==
    /\ bpc = "gs_gc"
    /\ BenchFatal("repo gc")
    /\ UNCHANGED <<supervisorVars, hosts, n, gets, tries, hi, who, q, bret, t,
                   localCopy, result, swarm, rejected, fetches, lastCmd>>

\* get_stats, lines 206-207: remove a stale local copy.
StatsRemove ==
    /\ bpc = "gs_rm"
    /\ localCopy' = FALSE
    /\ bpc' = "gs_fetch"
    /\ UNCHANGED <<supervisorVars, hosts, n, gets, tries, hi, who, q, bret, t,
                   result, swarm, rejected, fetches, failed, lastCmd>>

\* get_stats, line 208, time_get and time, lines 163-171: the timed
\* `get <hash>`; bash's `time` prints the elapsed real time, which float()
\* reads.  The fetch leaves the file in the working directory.
StatsFetchOk ==
    /\ bpc = "gs_fetch"
    /\ \E d \in Durations : t' = d
    /\ fetches' = fetches + 1
    /\ localCopy' = TRUE
    /\ hi' = 1
    /\ bpc' = "gs_check"
    /\ UNCHANGED <<supervisorVars, hosts, n, gets, tries, who, q, bret, result,
                   swarm, rejected, failed, lastCmd>>

StatsFetchFail ==
    /\ bpc = "gs_fetch"
    /\ BenchFatal("get")
    /\ UNCHANGED <<supervisorVars, hosts, n, gets, tries, hi, who, q, bret, t,
                   localCopy, result, swarm, rejected, fetches, lastCmd>>

\* A variant of AllChecked that is satisfied by the first connected peer
\* (`any` for `all`).
AnyChecked == hi > 1 \/ Len(hosts) = 0

\* get_stats, line 209: all() has gone through every peer of hosts, each
\* reported connected.
AllChecked == hi > Len(hosts)

\* get_stats, line 209: `all(self.is_connected(h) for h in hosts)` asks
\* peer by peer, each with its own `swarm addrs`, and stops at the first
\* peer that is not connected; line 210 appends the sample when all are.
StatsCheckPeer ==
    /\ bpc = "gs_check"
    /\ ~AllChecked
    /\ IF IsConnected(hosts[hi])
         THEN /\ hi' = hi + 1
              /\ UNCHANGED <<bpc, rejected, t>>
         ELSE /\ rejected' = rejected + 1
              /\ bpc' = "gs_loop"
              /\ hi' = 1
              /\ t' = 0
    /\ UNCHANGED <<supervisorVars, hosts, n, gets, tries, who, q, bret,
                   localCopy, result, swarm, failed, lastCmd, fetches>>

StatsCheckFail ==
    /\ bpc = "gs_check"
    /\ hi <= Len(hosts)
    /\ BenchFatal("swarm addrs")
    /\ UNCHANGED <<supervisorVars, hosts, n, gets, tries, hi, who, q, bret, t,
                   localCopy, result, swarm, rejected, fetches, lastCmd>>

StatsAccept ==
    /\ bpc = "gs_check"
    /\ AllChecked
    /\ gets' = Append(gets, t)
    /\ bpc' = "gs_loop"
    /\ hi' = 1
    /\ t' = 0
    /\ UNCHANGED <<supervisorVars, hosts, n, tries, who, q, bret, localCopy,
                   result, swarm, rejected, fetches, failed, lastCmd>>

\* get_stats, lines 211-212: remove the local copy after the run.
StatsCleanup ==
    /\ bpc = "gs_cleanup"
    /\ localCopy' = FALSE
    /\ bpc' = "gs_ret"
    /\ UNCHANGED <<supervisorVars, hosts, n, gets, tries, hi, who, q, bret, t,
                   result, swarm, rejected, fetches, failed, lastCmd>>

\* A variant of AverageRaises that guards the division and never raises.
AverageNeverRaises == FALSE

\* get_stats, line 213: `sum(gets) / len(gets)` raises ZeroDivisionError
\* on an empty list.
AverageRaises == Len(gets) = 0

\* get_stats, line 213: the result, its average the exact quotient
\* <<sum, count>>; or the ZeroDivisionError, which nothing catches.
StatsReturn ==
    /\ bpc = "gs_ret"
    /\ IF AverageRaises
         THEN /\ bpc' = "b_raised"
              /\ UNCHANGED <<result, n, gets, tries, rejected, fetches>>
         ELSE /\ result' = [tries |-> tries, gets |-> gets,
                            average |-> <<Sum(gets), Len(gets)>>]
              /\ bpc' = "b_idle"
              /\ n' = 0 /\ gets' = <<>> /\ tries' = 0 /\ rejected' = 0
              /\ fetches' = 0
    /\ UNCHANGED <<supervisorVars, hosts, hi, who, q, bret, t, localCopy,
                   swarm, failed, lastCmd>>

(* ------------------------------ the swarm ------------------------------ *)

BenchRunning == bpc \notin {"b_off", "b_exited", "b_raised"}

\* A peer leaves the swarm (churn), or joins it by itself.
PeerDrop ==
    /\ BenchRunning
    /\ \E p \in swarm : swarm' = swarm \ {p}
    /\ UNCHANGED <<supervisorVars, bpc, hosts, n, gets, tries, hi, who, q,
                   bret, t, localCopy, result, rejected, fetches, failed,
                   lastCmd>>

PeerJoin ==
    /\ BenchRunning
    /\ \E p \in Peers \ swarm : swarm' = swarm \cup {p}
    /\ UNCHANGED <<supervisorVars, bpc, hosts, n, gets, tries, hi, who, q,
                   bret, t, localCopy, result, rejected, fetches, failed,
                   lastCmd>>

\* The benchmark variables while nobody calls the benchmark methods (main
\* never does).
BenchOff ==
    /\ bpc = "b_off"
    /\ hosts = <<>>
    /\ n = 0
    /\ gets = <<>>
    /\ tries = 0
    /\ hi = 1
    /\ who = PeerA
    /\ q = FALSE
    /\ bret = "b_idle"
    /\ t = 0
    /\ localCopy = FALSE
    /\ result = NoResult
    /\ swarm = {}
    /\ rejected = 0
    /\ failed = "none"
    /\ lastCmd = NoCmd
    /\ fetches = 0

\* The publisher's variables before its first call, and the history of the
\* supervisor's polls and of main's loop at the start.
PubOff ==
    /\ sessionId = 0
    /\ sharedTokens = <<>>
    /\ attempts = <<>>
    /\ pubFails = 0
    /\ pubs = <<>>
    /\ lastPoll = {}
    /\ cycle = <<>>

\* No client handle constructed yet.
NoHandle ==
    /\ live = [h \in Handles |-> "none"]
    /\ hpath = [h \in Handles |-> Unset]
    /\ cur = 1
    /\ cmdBy = 0
    /\ cmdEnv = Unset

\* The one handle of main, constructed on the default path.
OneHandle ==
    /\ live = [h \in Handles |-> IF h = 1 THEN "live" ELSE "none"]
    /\ hpath = [h \in Handles |-> IF h = 1 THEN DotIpfs ELSE Unset]
    /\ cur = 1
    /\ cmdBy = 0
    /\ cmdEnv = Unset

(* --------------------------- client handles ---------------------------- *)

\* The data directories a caller may give a handle.
Paths == {DotIpfs, OtherIpfs}

\* IPFSClient.__init__, lines 83-87: a caller constructs a handle on a path;
\* _ensure_path sets the process's IPFS_PATH to it.
Construct ==
    /\ pc = "h_idle"
    /\ \E h \in Handles, path \in Paths :
          /\ live[h] = "none"
          /\ live' = [live EXCEPT ![h] = "live"]
          /\ hpath' = [hpath EXCEPT ![h] = path]
          /\ envPath' = EnsurePath(path)
    /\ UNCHANGED <<benchVars, pubVars, auxVars, pc, stack, argKill, pid,
                   pinned, tok, envVars, histVars, cur, cmdBy, cmdEnv>>

\* A live handle runs a command (call, check_output, time, lines 160-183):
\* the subprocess inherits the process's environment as it is now; no
\* method sets IPFS_PATH again before it.
HandleCommand ==
    /\ pc = "h_idle"
    /\ \E h \in Handles :
          /\ live[h] = "live"
          /\ cmdBy' = h
    /\ cmdEnv' = envPath
    /\ UNCHANGED <<benchVars, pubVars, auxVars, hostVars, envVars, histVars,
                   live, hpath, cur>>

\* A caller calls teardown() on a live handle.
HandleTeardown ==
    /\ pc = "h_idle"
    /\ \E h \in Handles :
          /\ live[h] = "live"
          /\ cur' = h
    /\ Call("td_kill", "h_idle")
    /\ UNCHANGED <<benchVars, pubVars, auxVars, argKill, pid, pinned, tok,
                   envPath, envVars, histVars, live, hpath, cmdBy, cmdEnv>>

(* --------------------------- specification ----------------------------- *)

Init ==
    /\ pc = "m_start"
    /\ stack = <<>>
    /\ argKill \in BOOLEAN
    /\ pid = 0
    /\ pinned = 0
    /\ tok = 0
    /\ envPath = Unset
    /\ procs \in {{}, {1}}
    /\ ready \in {0} \cup procs
    /\ pending = 0
    /\ deaths = 0
    /\ spawns = 0
    /\ pollFails = 0
    /\ inLaunch = FALSE
    /\ lastLaunch = "none"
    /\ launched = FALSE
    /\ kdExit = "none"
    /\ kdSent = FALSE
    /\ tornDown = FALSE
    /\ exitHow = "running"
    /\ BenchOff
    /\ now = MaxTime - RunLength
    /\ PubOff
    /\ NoHandle

Host ==
    \/ MainStart \/ MainPinOk \/ MainPinFail \/ MainId \/ MainLoopLaunch
    \/ MainPublish \/ PubSession \/ PublishTokenOk \/ PublishTokenFail
    \/ PublishDone \/ MainSleep
    \/ MainKill2 \/ MainTeardown \/ TeardownKill \/ TeardownUnset
    \/ MainDelete
    \/ LaunchCheck \/ LaunchRunning \/ SpawnPoll
    \/ PopenSpawned \/ PopenNoProcess \/ PopenRaises
    \/ WaitPoll \/ WaitSleep
    \/ KillGetPid \/ KillPoll \/ KillDelivered \/ KillRefused \/ KillGroup

Environment == Appear \/ BecomeReady \/ Die \/ DuplicateExit

Next == Host \/ Environment \/ Terminate

Spec == Init /\ [][Next]_vars

\* The module imported as a library: main does not run, and a caller with a
\* client on a running daemon calls the peer and benchmark methods, one
\* call at a time, with any hosts list and any swarm to start from.
InitBench ==
    /\ pc = "imported"
    /\ stack = <<>>
    /\ argKill = FALSE
    /\ pid = 0
    /\ pinned = 0
    /\ tok = 0
    /\ envPath = DotIpfs
    /\ procs = {1}
    /\ ready = 1
    /\ pending = 0
    /\ deaths = 0
    /\ spawns = 0
    /\ pollFails = 0
    /\ inLaunch = FALSE
    /\ lastLaunch = "none"
    /\ launched = FALSE
    /\ kdExit = "none"
    /\ kdSent = FALSE
    /\ tornDown = FALSE
    /\ exitHow = "running"
    /\ bpc = "b_idle"
    /\ hosts \in HostLists
    /\ n = 0
    /\ gets = <<>>
    /\ tries = 0
    /\ hi = 1
    /\ who = PeerA
    /\ q = FALSE
    /\ bret = "b_idle"
    /\ t = 0
    /\ localCopy \in BOOLEAN
    /\ result = NoResult
    /\ swarm \in SUBSET Peers
    /\ rejected = 0
    /\ failed = "none"
    /\ lastCmd = NoCmd
    /\ fetches = 0
    /\ now = MaxTime - RunLength
    /\ PubOff
    /\ OneHandle

NextBench ==
    \/ CallEnsureConnected \/ CallEnsureDisconnected
    \/ ConnQueryOk \/ ConnQueryFail
    \/ ConnectSkip \/ ConnectOk \/ ConnectFail
    \/ DisconnectSkip \/ DisconnectOk \/ DisconnectFail
    \/ CallGetStats \/ StatsLoop \/ StatsConnect
    \/ StatsGcOk \/ StatsGcFail \/ StatsRemove
    \/ StatsFetchOk \/ StatsFetchFail
    \/ StatsCheckPeer \/ StatsCheckFail \/ StatsAccept
    \/ StatsCleanup \/ StatsReturn
    \/ PeerDrop \/ PeerJoin

SpecBench == InitBench /\ [][NextBench]_vars

\* The module imported as a library, its publisher called at any second of
\* the clock and then again after each wait.
InitPub ==
    /\ pc = "p_call"
    /\ stack = <<>>
    /\ argKill = FALSE
    /\ pid = 0
    /\ pinned = 0
    /\ tok = 0
    /\ envPath = DotIpfs
    /\ procs = {1}
    /\ ready = 1
    /\ pending = 0
    /\ deaths = 0
    /\ spawns = 0
    /\ pollFails = 0
    /\ inLaunch = FALSE
    /\ lastLaunch = "none"
    /\ launched = FALSE
    /\ kdExit = "none"
    /\ kdSent = FALSE
    /\ tornDown = FALSE
    /\ exitHow = "running"
    /\ BenchOff
    /\ now \in 0 .. MaxTime
    /\ PubOff
    /\ OneHandle

NextPub ==
    \/ PubCall \/ PubSession \/ PublishTokenOk \/ PublishTokenFail
    \/ PublishDone \/ PubWait

SpecPub == InitPub /\ [][NextPub]_vars

\* The module imported as a library by a caller that constructs up to two
\* handles in one process, runs commands through them and tears them down,
\* with any daemon processes around.
InitHandles ==
    /\ pc = "h_idle"
    /\ stack = <<>>
    /\ argKill = FALSE
    /\ pid = 0
    /\ pinned = 0
    /\ tok = 0
    /\ envPath = Unset
    /\ procs \in SUBSET (1 .. MaxProcs)
    /\ ready \in {0} \cup procs
    /\ pending = 0
    /\ deaths = 0
    /\ spawns = 0
    /\ pollFails = 0
    /\ inLaunch = FALSE
    /\ lastLaunch = "none"
    /\ launched = FALSE
    /\ kdExit = "none"
    /\ kdSent = FALSE
    /\ tornDown = FALSE
    /\ exitHow = "running"
    /\ BenchOff
    /\ now = MaxTime - RunLength
    /\ PubOff
    /\ NoHandle

NextHandles ==
    \/ Construct \/ HandleCommand \/ HandleTeardown
    \/ TeardownKill \/ TeardownUnset
    \/ KillGetPid \/ KillPoll \/ KillDelivered \/ KillRefused \/ KillGroup
    \/ BecomeReady \/ Die \/ DuplicateExit

SpecHandles == InitHandles /\ [][NextHandles]_vars

\* The host loop without termination requests, under the scheduling the
\* supervisor relies on: the interpreter keeps running (WF on Host), repeated
\* spawn attempts eventually yield a process that shows up (SF on
\* PopenSpawned and Appear), a daemon that stays up eventually answers the
\* status command (WF on BecomeReady), and a daemon that finds the repository
\* locked exits (WF on DuplicateExit).  Daemons die by themselves at most
\* MaxDeaths times, so the environment does settle.
NextFair == Host \/ Environment

SpecFair ==
    /\ Init
    /\ [][NextFair]_vars
    /\ WF_vars(Host)
    /\ SF_vars(PopenSpawned)
    /\ SF_vars(Appear)
    /\ WF_vars(BecomeReady)
    /\ WF_vars(DuplicateExit)

(* ------------------------------ claims --------------------------------- *)

\* C1: whenever the host process has stopped after the daemon was launched,
\* by a termination request or by a fatal required-command failure, the
\* teardown (daemon kill, then the IPFS_PATH cleanup) has run.
C1_TeardownOnEveryExit ==
    (pc = "exited" /\ launched /\ exitHow \in {"signal", "fatal"})
        => tornDown

\* C2: a launch_daemon call that finds the daemon not ready eventually
\* returns, with the host alive and the daemon ready.
C2_SelfHealing ==
    (inLaunch /\ ~DaemonAvailable) ~> (~inLaunch /\ Alive /\ DaemonAvailable)

\* C4: a launch_daemon call that finds the daemon ready returns at once to
\* its caller: no process is spawned or signalled and the process table is
\* left as it was.
C4_LaunchIdempotent ==
    [][(pc = "ld_avail" /\ DaemonAvailable /\ pc' # pc /\ pc' # "exited")
         => /\ pc' = Head(stack)
            /\ stack' = Tail(stack)
            /\ spawns' = 0
            /\ <<procs, ready, pending>>' = <<procs, ready, pending>>
            /\ lastLaunch' = "fast"]_vars

\* C4, its case: the loop's call (line 347), made after the first call of
\* line 327 returned, came back by the fast path.
C4_Witness ==
    /\ pc = "m_publish"
    /\ lastLaunch = "fast"
    /\ spawns = 0
    /\ DaemonAvailable

\* A step by which kill_daemon returns to its caller.
KillReturns ==
    /\ pc \in {"kd_poll", "kd_kill"}
    /\ pc' \notin {"kd_poll", "kd_kill", "exited"}

\* C5, as claimed: when kill_daemon returns, the process table holds no
\* daemon process.
C5_KillEndsNotRunning == [][KillReturns => procs' = {}]_vars

\* C5, amended: kill_daemon returns through its loop condition only when
\* the process-table query gives no process id (the table holds no daemon
\* process, or several); when it returns because the signal could not be
\* delivered it returns without another query, leaving the table as it is.
C5_KillReturnsOnNoPid ==
    [][KillReturns
         => /\ procs' = procs
            /\ pc = "kd_poll" => (Cardinality(procs) # 1 /\ kdExit' = "poll")
            /\ pc = "kd_kill" => (pid # 0 /\ kdExit' = "except")]_vars

\* C5, its case: kill_daemon delivered its signal, polled again and
\* returned with no daemon process left.
C5_Witness ==
    /\ kdExit = "poll"
    /\ kdSent
    /\ procs = {}
    /\ pc = "m_kill2"

\* C6, as claimed: the spawn loop left after five failed polls and a match
\* on the sixth has issued six spawn attempts.
C6_SixSpawns ==
    (pc = "ld_wait" /\ inLaunch /\ pollFails = 5) => spawns = 6

\* C6, amended: the spawn loop issues one spawn attempt per failed poll of
\* the loop, so five failed polls and a match on the sixth make five spawn
\* attempts, and none is issued once the match has appeared.
C6_SpawnPerFailedPoll ==
    (inLaunch /\ pollFails < MaxCount) =>
        /\ pc \in {"ld_wait", "ld_sleep", "ld_spawn_poll"}
              => spawns = pollFails
        /\ pc = "ld_popen" => spawns + 1 = pollFails

\* C6, its case: five failed polls, the match on the sixth, five spawns.
C6_Witness ==
    /\ pc = "ld_wait"
    /\ inLaunch
    /\ pollFails = 5
    /\ spawns = 5

\* C3: in every state of get_stats the accepted samples are at most
\* `samples`, the attempts at most 2 * samples, the accepted samples at most
\* the attempts, and every accepted sample, and the duration just measured,
\* is non-negative.
C3_StatsBounds ==
    /\ Len(gets) <= n
    /\ tries <= 2 * n
    /\ Len(gets) <= tries
    /\ \A i \in DOMAIN gets : gets[i] >= 0
    /\ t >= 0
    /\ Len(result.gets) <= result.tries \/ result = NoResult

\* C3, its case: churn used up the whole budget of 2 * samples attempts
\* with fewer than `samples` accepted, and the loop is about to end.
C3_Witness ==
    /\ bpc = "gs_loop"
    /\ n > 0
    /\ tries = 2 * n
    /\ Len(gets) < n
    /\ Len(gets) > 0

\* A step of the client that issues `swarm <kind> <address of who>`.
Issues(kind) ==
    /\ bpc \in {"ec_act", "ed_act"}
    /\ bpc' # bpc
    /\ lastCmd' = <<kind, who>>

\* C7: ensure_connected that acted on an accurate query leaves the peer
\* reported connected, so an is_connected right after it is true; an
\* ensure_connected that finds the peer connected issues no command and
\* leaves the swarm alone; and a connect (disconnect) command is issued only
\* when the query said not connected (connected).
C7_EnsureIdempotent ==
    [][/\ (bpc = "ec_act" /\ bpc' = bret /\ q = IsConnected(who))
            => \E m \in swarm' : IsSubstring(who, Address(m))
       /\ (bpc = "ec_query" /\ bpc' = "ec_act") => q' = IsConnected(who)
       /\ (bpc = "ec_act" /\ bpc' # bpc /\ q)
            => (~Issues("connect") /\ swarm' = swarm /\ bpc' = bret)
       /\ Issues("connect") => (bpc = "ec_act" /\ ~q)
       /\ Issues("disconnect") => (bpc = "ed_act" /\ q)]_vars

\* C7, its case: ensure_connected(p) issued its connect, and the next call,
\* ensure_connected(p) again, has found p connected and is about to return.
C7_Witness ==
    /\ bpc = "ec_act"
    /\ bret = "b_idle"
    /\ q
    /\ lastCmd = <<"connect", who>>

\* C8: the step in which a required command fails ends the process, with
\* no sample accepted and no result produced by it; after it no variable of
\* the client changes any more.
C8_RequiredFailureFatal ==
    [][/\ (failed = "none" /\ failed' # "none")
            => /\ bpc' = "b_exited"
               /\ <<gets, tries, result, swarm>>'
                     = <<gets, tries, result, swarm>>
       /\ failed # "none" => (bpc = "b_exited" /\ UNCHANGED benchVars)
       /\ bpc' = "b_exited" => failed' # "none"]_vars

\* C8, its case: the timed fetch of a second attempt failed, and the
\* process is gone with the first sample never returned.
C8_Witness ==
    /\ bpc = "b_exited"
    /\ failed = "get"
    /\ tries = 2
    /\ Len(gets) = 1
    /\ result = NoResult

\* C9: get_stats with no accepted sample ends in the uncaught
\* ZeroDivisionError and returns nothing; every result it returns holds at
\* least one sample and an average over a non-zero count.
C9_EmptyIsHardFailure ==
    [][/\ (bpc = "gs_ret" /\ bpc' # bpc /\ Len(gets) = 0)
            => (bpc' = "b_raised" /\ result' = NoResult)
       /\ result' # NoResult
            => (Len(result'.gets) > 0 /\ result'.average[2] > 0)
       /\ bpc' = "b_raised" => (bpc = "gs_ret" /\ Len(gets) = 0)]_vars

\* C9, its case: every attempt of the budget was invalidated by a peer that
\* was not connected, and get_stats raised.
C9_Witness ==
    /\ bpc = "b_raised"
    /\ n > 0
    /\ tries = 2 * n
    /\ rejected = 2 * n
    /\ gets = <<>>

\* The step by which get_stats ends, no sample of the call having been
\* rejected (no command failed either, or the process would be gone).
EndsUnrejected ==
    /\ bpc = "gs_ret"
    /\ bpc' # bpc
    /\ rejected = 0

\* C10, as claimed: when every fetch and every connection check succeeds,
\* get_stats with samples = n returns n samples after n attempts, in the
\* order of the fetches.
C10_ReturnsNSamples ==
    [][/\ EndsUnrejected
            => /\ bpc' = "b_idle"
               /\ Len(result'.gets) = n
               /\ result'.tries = n
               /\ result'.gets = gets
       /\ (bpc = "gs_check" /\ gets' # gets) => gets' = Append(gets, t)]_vars

\* C10, amended: the same for n >= 1; with n = 0 no attempt is made and
\* get_stats raises instead of returning.
C10_ReturnsNSamplesFromOne ==
    [][/\ (EndsUnrejected /\ n >= 1)
            => /\ bpc' = "b_idle"
               /\ Len(result'.gets) = n
               /\ result'.tries = n
               /\ result'.gets = gets
       /\ (EndsUnrejected /\ n = 0)
            => (bpc' = "b_raised" /\ tries = 0 /\ result' = NoResult)
       /\ (bpc = "gs_check" /\ gets' # gets) => gets' = Append(gets, t)]_vars

\* C10, its case: one peer, samples = 3, and a result of three samples
\* after three attempts, the samples not all equal.
C10_Witness ==
    /\ bpc = "b_idle"
    /\ Len(hosts) = 1
    /\ result.tries = 3
    /\ Len(result.gets) = 3
    /\ result.gets[1] # result.gets[3]

\* The session windows of a recorded publisher call, read back from its
\* tokens.
Windows(call) == [i \in DOMAIN call.tokens |-> Value(call.tokens[i].number)]

\* C11, as claimed: a publisher call 59 seconds after another has the same
\* three windows, and a call 61 seconds after another has each window
\* shifted by exactly 1.
C11_SameWindowsAfter59 ==
    Len(pubs) = 2 =>
        /\ pubs[2].at = pubs[1].at + 59
              => Windows(pubs[2]) = Windows(pubs[1])
        /\ pubs[2].at = pubs[1].at + 61
              => \A i \in 1 .. 3 :
                    Windows(pubs[2])[i] = Windows(pubs[1])[i] + 1

\* C11, amended: the windows depend on the minute only.  A call 59 seconds
\* after a call at t has the same three windows when t is the first second
\* of its minute, and each window shifted by 1 otherwise; a call 61 seconds
\* after has each window shifted by 1, or by 2 when t is the last second of
\* its minute.
C11_WindowsByMinute ==
    Len(pubs) = 2 =>
        LET t0 == pubs[1].at
            Shift(i) == Windows(pubs[2])[i] - Windows(pubs[1])[i]
        IN  /\ Len(pubs[1].tokens) = 3 /\ Len(pubs[2].tokens) = 3
            /\ pubs[2].at = t0 + 59
                  => \A i \in 1 .. 3 :
                        Shift(i) = IF t0 % 60 = 0 THEN 0 ELSE 1
            /\ pubs[2].at = t0 + 61
                  => \A i \in 1 .. 3 :
                        Shift(i) = IF t0 % 60 = 59 THEN 2 ELSE 1

\* C11, its case: calls at 600 and at 659, both with windows 10, 11, 12.
C11_Witness ==
    /\ Len(pubs) = 2
    /\ pubs[1].at = 600
    /\ pubs[2].at = 659
    /\ Windows(pubs[1]) = <<10, 11, 12>>
    /\ Windows(pubs[2]) = <<10, 11, 12>>

\* The token the claim names for window w.
NamedToken(w) ==
    [text |-> "Member of P2P CDN Session: ", number |-> Decimal(w)]

\* C12: every publisher call that has returned built three tokens, for the
\* windows w, w + 1, w + 2 with w = floor(t / 60), each the string "Member
\* of P2P CDN Session: " followed by the window number, and ran one
\* pipeline per token in that order (the call at 120: windows 2, 3, 4); two
\* calls 60 seconds apart share exactly two windows.
C12_ThreeTokensPerCall ==
    /\ \A k \in DOMAIN pubs :
          LET w == pubs[k].at \div 60
          IN  /\ pubs[k].tokens
                   = <<NamedToken(w), NamedToken(w + 1), NamedToken(w + 2)>>
              /\ Windows(pubs[k]) = <<w, w + 1, w + 2>>
              /\ pubs[k].attempts = pubs[k].tokens
              /\ pubs[k].at = 120 => Windows(pubs[k]) = <<2, 3, 4>>
    /\ (Len(pubs) = 2 /\ pubs[2].at = pubs[1].at + 60)
          => Cardinality({Windows(pubs[1])[i] : i \in 1 .. 3}
                           \cap {Windows(pubs[2])[i] : i \in 1 .. 3}) = 2

\* C12, its case: the call at 120 with windows 2, 3, 4 and the next call,
\* 60 seconds later, with windows 3, 4, 5.
C12_Witness ==
    /\ Len(pubs) = 2
    /\ pubs[1].at = 120
    /\ pubs[2].at = 180
    /\ Windows(pubs[1]) = <<2, 3, 4>>
    /\ Windows(pubs[2]) = <<3, 4, 5>>

\* C13: a duration is appended to the samples only by the step that ends
\* the connection checks made after its fetch, every peer of hosts having
\* been reported connected in them; a check that reports a peer not
\* connected rejects the sample and the attempt stays counted; between
\* attempts and at the end of get_stats the attempts equal the timed
\* fetches performed, and accepted + rejected = attempts.
C13_AcceptOnlyAllConnected ==
    [][/\ gets' # gets /\ bpc # "gs_ret"
            => /\ bpc = "gs_check"
               /\ hi = Len(hosts) + 1
               /\ gets' = Append(gets, t)
               /\ rejected' = rejected /\ tries' = tries
       /\ (bpc = "gs_check" /\ bpc' = "gs_loop" /\ gets' = gets)
            => /\ ~IsConnected(hosts[hi])
               /\ rejected' = rejected + 1
               /\ tries' = tries
       /\ bpc' \in {"gs_loop", "gs_cleanup", "gs_ret"}
            => /\ fetches' = tries'
               /\ Len(gets') + rejected' = tries']_vars

\* C13, its case: two peers, two attempts made, the first sample rejected
\* and the second accepted.
C13_Witness ==
    /\ bpc = "gs_loop"
    /\ Len(hosts) = 2
    /\ tries = 2
    /\ fetches = 2
    /\ rejected = 1
    /\ Len(gets) = 1

\* C14: a garbage-collection command or a re-connect command that fails
\* inside a get_stats attempt does not end the process.
C14_BestEffortInAttempt ==
    (failed \in {"repo gc", "swarm connect"} /\ tries > 0)
        => bpc # "b_exited"

\* C15: launch_daemon that finds a daemon process at line 96 calls
\* kill_daemon before any spawn attempt, and it reaches a spawn attempt only
\* from a poll of the process table that matched no daemon process.
C15_KillBeforeSpawn ==
    [][/\ (pc = "ld_running" /\ procs # {} /\ pc' \notin {pc, "exited"})
            => (pc' = "kd_pid" /\ Head(stack') = "ld_spawn_poll" /\ spawns = 0)
       /\ pc' = "ld_popen"
            => (pc \in {"ld_spawn_poll", "ld_popen"} /\ lastPoll' = {})]_vars

\* C16: the step in which a token's pipeline fails stays in the publisher
\* and moves to the next token; the publisher returns only after three
\* pipelines were run, failed or not, to main's sleep; and the sleep is
\* followed by the next cycle's launch_daemon.
C16_TokenFailureSwallowed ==
    [][/\ (pc = "gh_token" /\ pubFails' # pubFails)
            => /\ pc' = "gh_token"
               /\ stack' = stack
               /\ tok' = tok + 1
               /\ Len(attempts') = Len(attempts) + 1
               /\ exitHow' = "running"
       /\ (pc = "gh_token" /\ pc' \notin {"gh_token", "exited"})
            => /\ Len(attempts) = 3
               /\ attempts = sharedTokens
               /\ pc' = "m_sleep"
       /\ (pc = "m_sleep" /\ pc' \notin {"m_sleep", "exited"})
            => pc' = "m_loop"
       /\ (pc = "m_loop" /\ pc' \notin {"m_loop", "exited"})
            => pc' = "ld_avail"]_vars

\* C16, its case: all three pipelines of a call failed, the call returned,
\* main slept and stands at the start of its next cycle.
C16_Witness ==
    /\ pc = "m_loop"
    /\ cycle = <<"launch", "publish", "sleep">>
    /\ pubFails = 3
    /\ Len(attempts) = 3

\* C17: a cycle of main's loop is launch_daemon, then the publisher, then
\* the sleep, each once: the next cycle starts only after all three; the
\* publisher is called only when this cycle's launch_daemon has returned;
\* and launch_daemon returns only in the step of a readiness check that
\* found the daemon answering.
C17_CycleOrder ==
    [][/\ cycle' \in {<<>>, <<"launch">>, <<"launch", "publish">>,
                      <<"launch", "publish", "sleep">>}
       /\ (cycle' # cycle /\ cycle' = <<"launch">>)
            => /\ cycle \in {<<>>, <<"launch", "publish", "sleep">>}
               /\ pc = "m_loop" /\ pc' = "ld_avail"
       /\ (pc = "m_publish" /\ pc' = "gh_start")
            => (cycle = <<"launch">> /\ ~inLaunch)
       /\ (pc = "m_sleep" /\ pc' = "m_loop")
            => /\ cycle = <<"launch", "publish">>
               /\ Len(attempts) = 3
               /\ now' >= now + 60
       /\ (inLaunch /\ ~inLaunch')
            => /\ DaemonAvailable
               /\ pc \in {"ld_avail", "ld_wait"}
               /\ pc' = Head(stack)]_vars

\* C17, its case: a full cycle whose launch_daemon found the daemon gone,
\* spawned a new one and waited for it, and the next cycle under way.
C17_Witness ==
    /\ pc = "m_sleep"
    /\ Len(pubs) = 2
    /\ lastLaunch = "slow"
    /\ spawns > 0
    /\ cycle = <<"launch", "publish">>

\* C18: every command a handle runs sees IPFS_PATH equal to that handle's
\* path, also when another handle was constructed or torn down in between;
\* and once a handle is torn down and no handle is live, IPFS_PATH is unset.
C18_PathScopedToHandle ==
    /\ cmdBy # 0 => cmdEnv = hpath[cmdBy]
    /\ \A h \in Handles :
          (live[h] = "torn" /\ \A g \in Handles : live[g] # "live")
              => envPath = Unset

\* C19: launch_daemon issues a spawn attempt only while no daemon process
\* exists, in the process table or spawned and not yet in it, and it goes
\* from its poll to a spawn attempt only when the table holds no daemon
\* process.
C19_SingleDaemon ==
    [][/\ (pc = "ld_popen" /\ pc' \notin {"ld_popen", "exited"})
            => (procs = {} /\ pending = 0)
       /\ (pc = "ld_spawn_poll" /\ pc' = "ld_popen") => procs = {}]_vars

\* C20: whenever kill_daemon is about to send its signal, the process id it
\* holds is not 0 and is the one process its guarding poll matched; the
\* host never ends by signalling its own process group.
C20_KillOnlyPolledPid ==
    /\ pc = "kd_kill" => (pid # 0 /\ lastPoll = {pid})
    /\ exitHow # "selfkill"

====
